---- MODULE Spec2Model ----
(***************************************************************************)
(* A model of the Hugging Face Spaces key scanners of this repository:     *)
(*   - huggingface_api_key_scanner.py : main() with its baseline, its      *)
(*     scan cycles, the seen-spaces log and the per-kind key files         *)
(*     (specification Spec);                                               *)
(*   - hfscrapper.py : the module-level pagination loop with its tree      *)
(*     walk and file scan (specification SpecHfs).                         *)
(* Files are written one whole line at a time.  SEEN_SPACES_FILE is read   *)
(* only by load_seen_spaces, which builds a set of its lines: the model    *)
(* keeps the set of its lines, not their order.  A process can be killed   *)
(* between any two steps (Crash) and started again (Restart); the files    *)
(* and the download directories survive, the variables of the process do   *)
(* not.                                                                    *)
(***************************************************************************)
EXTENDS Naturals, Sequences, FiniteSets, TLC

(* ------------------------------ bounds -------------------------------- *)
\* longest answer of list_spaces() the model draws
MaxListing == 2
\* failures (a call that raises, a killed process) over one behaviour; a
\* failed removal of a left-over directory takes two
MaxFaults == 2

(* ------------------------- strings and paths -------------------------- *)
Range(s) == {s[k] : k \in DOMAIN s}

Whitespace == {" ", "\t", "\n", "\r"}

\* str.strip(): leading and trailing whitespace removed
RECURSIVE LStrip(_)
LStrip(s) ==
    IF s # <<>> /\ Head(s) \in Whitespace THEN LStrip(Tail(s)) ELSE s

RECURSIVE RStrip(_)
RStrip(s) ==
    IF s # <<>> /\ s[Len(s)] \in Whitespace
    THEN RStrip(SubSeq(s, 1, Len(s) - 1))
    ELSE s

Strip(s) == RStrip(LStrip(s))

\* the repository ids the remote catalog can hold, as character sequences
Ids == { <<"u", "/", "a">>, <<"u", "/", "b">> }

\* space_id.replace("/", "_"): the name of the download directory
DirName(id) == [k \in DOMAIN id |-> IF id[k] = "/" THEN "_" ELSE id[k]]

(* --------------------------- API_KEY_PATTERNS ------------------------- *)
(* A file's content is a sequence of tokens separated by characters no     *)
(* pattern accepts.  A token is a prefix followed by n characters of one   *)
(* class: "hex" (all in [a-f0-9]), "alnum" (all in [A-Za-z0-9], the first  *)
(* one not hexadecimal) or "ext" (all in [A-Za-z0-9_-], the first one a    *)
(* hyphen); aa says whether characters 94 and 95 are "AA"; tag names the   *)
(* character stream, so two values are the same text iff they agree on     *)
(* pre, cls, tag and n.                                                    *)
Kinds == <<"OpenAI", "Claude", "GoogleAI", "DeepSeek", "XAI">>

Tok(pre, cls, n, tag) == [pre |-> pre, cls |-> cls, n |-> n, tag |-> tag, aa |-> FALSE]

\* the value re.findall returns for a match of m characters after the prefix
Val(tok, m) == [pre |-> tok.pre, cls |-> tok.cls, n |-> m, tag |-> tok.tag]

NoMatch == <<>>

OpenAIMin == 40
ClaudeApi03Len == 93
ClaudeAntLen == 86
ClaudeSkLen == 86
GoogleAILen == 33
DeepSeekLen == 32
XAILen == 80

\* sk-[a-zA-Z0-9]{40,} : greedy, the whole alphanumeric run
MatchOpenAI(tok) ==
    IF tok.pre = "sk-" /\ tok.cls \in {"hex", "alnum"} /\ tok.n >= OpenAIMin
    THEN <<Val(tok, tok.n)>> ELSE NoMatch

\* (sk-ant-api03-[A-Za-z0-9\-_]{93}AA|sk-ant-[A-Za-z0-9\-_]{86}|sk-[A-Za-z0-9]{86})
\* the alternatives are tried in this order at one position; "sk-ant-api03-"
\* read by the second alternative is "sk-ant-" followed by "api03-" (6
\* characters) and the token's first 80 characters
MatchClaude(tok) ==
    IF tok.pre = "sk-ant-api03-" /\ tok.aa /\ tok.n >= ClaudeApi03Len + 2
    THEN <<Val(tok, ClaudeApi03Len + 2)>>
    ELSE IF tok.pre = "sk-ant-api03-" /\ tok.n + 6 >= ClaudeAntLen
    THEN <<Val(tok, ClaudeAntLen - 6)>>
    ELSE IF tok.pre = "sk-ant-" /\ tok.n >= ClaudeAntLen
    THEN <<Val(tok, ClaudeAntLen)>>
    ELSE IF tok.pre = "sk-" /\ tok.cls \in {"hex", "alnum"} /\ tok.n >= ClaudeSkLen
    THEN <<Val(tok, ClaudeSkLen)>>
    ELSE NoMatch

\* AIzaSy[A-Za-z0-9\-_]{33}
MatchGoogleAI(tok) ==
    IF tok.pre = "AIzaSy" /\ tok.n >= GoogleAILen
    THEN <<Val(tok, GoogleAILen)>> ELSE NoMatch

\* sk-[a-f0-9]{32}
MatchDeepSeek(tok) ==
    IF tok.pre = "sk-" /\ tok.cls = "hex" /\ tok.n >= DeepSeekLen
    THEN <<Val(tok, DeepSeekLen)>> ELSE NoMatch

\* xai-[A-Za-z0-9]{80}
MatchXAI(tok) ==
    IF tok.pre = "xai-" /\ tok.cls \in {"hex", "alnum"} /\ tok.n >= XAILen
    THEN <<Val(tok, XAILen)>> ELSE NoMatch

Match(kind, tok) ==
    CASE kind = "OpenAI" -> MatchOpenAI(tok)
      [] kind = "Claude" -> MatchClaude(tok)
      [] kind = "GoogleAI" -> MatchGoogleAI(tok)
      [] kind = "DeepSeek" -> MatchDeepSeek(tok)
      [] kind = "XAI" -> MatchXAI(tok)

\* re.findall(pattern, content): the matches in the order of the content
RECURSIVE FindAll(_, _)
FindAll(kind, content) ==
    IF content = <<>> THEN <<>>
    ELSE Match(kind, Head(content)) \o FindAll(kind, Tail(content))

\* search_keys_in_content: kind -> matches, a kind without a match left out
\* (here: mapped to the empty list)
search_keys_in_content(content) ==
    [kind \in Range(Kinds) |-> FindAll(kind, content)]

(* A dict of lists in insertion order: order holds the keys as inserted,   *)
(* lists the list of each key.                                             *)
EmptyDict == [order |-> <<>>, lists |-> [kind \in Range(Kinds) |-> <<>>]]

\* lines 80-84: one file's matches merged into all_found_keys, kind by kind
RECURSIVE MergeFile(_, _, _)
MergeFile(all, found_in_file, k) ==
    IF k > Len(Kinds) THEN all
    ELSE LET kind == Kinds[k]
             keys == found_in_file[kind]
         IN  IF keys = <<>> THEN MergeFile(all, found_in_file, k + 1)
             ELSE MergeFile(
                    [order |-> IF kind \in Range(all.order) THEN all.order
                               ELSE Append(all.order, kind),
                     lists |-> [all.lists EXCEPT ![kind] = @ \o keys]],
                    found_in_file, k + 1)

\* scan_directory_for_keys: every file of the directory, in walk order
RECURSIVE ScanFiles(_, _)
ScanFiles(all, files) ==
    IF files = <<>> THEN all
    ELSE ScanFiles(MergeFile(all, search_keys_in_content(Head(files)), 1),
                   Tail(files))

scan_directory_for_keys(files) == ScanFiles(EmptyDict, files)

\* lines 204-207: the (kind, key) pairs in the order the save loop visits them
RECURSIVE SaveOrder(_, _)
SaveOrder(dict, k) ==
    IF k > Len(dict.order) THEN <<>>
    ELSE LET kind == dict.order[k]
         IN  [j \in 1..Len(dict.lists[kind]) |-> <<kind, dict.lists[kind][j]>>]
             \o SaveOrder(dict, k + 1)

(* ------------------------- the remote repositories -------------------- *)
KeyA == Tok("sk-", "alnum", 48, 1)
KeyHex == Tok("sk-", "hex", 40, 2)
Short == Tok("sk-", "alnum", 39, 3)

\* the files of each repository, each a sequence of tokens
Files(id) ==
    CASE id = <<"u", "/", "a">> -> << <<KeyA, KeyA>>, <<Short>> >>
      [] id = <<"u", "/", "b">> -> << <<KeyHex>> >>

(* ------------------------------ state --------------------------------- *)
VARIABLES
    \* the local disk
    seen_file_exists,   \* os.path.exists(SEEN_SPACES_FILE)
    seen_file,          \* the lines of SEEN_SPACES_FILE, as a set
    key_files,          \* kind -> the lines of that kind's output file
    download_dirs,      \* names of the directories under DOWNLOAD_DIR_BASE
    \* main() of huggingface_api_key_scanner.py
    pc,                 \* where main() is
    seen_spaces,        \* the in-memory set
    initial_spaces,     \* the baseline's listing
    bi,                 \* position of the baseline loop in initial_spaces
    new_spaces_to_scan, \* this cycle's unseen spaces
    i,                  \* position of the scan loop in new_spaces_to_scan
    found_keys,         \* the (kind, key) pairs of the space being processed
    ki,                 \* position of the save loop in found_keys
    faults,             \* failures so far
    \* history, read by the properties only
    acked,              \* ids whose seen_spaces.add and save_seen_space returned
    baselineMissing,    \* ids of the baseline's listing not written to the log yet
    detected,           \* ids whose scan returned its findings
    rmFailed,           \* ids whose directory removal raised last time
    killedIn,           \* ids whose directory a kill of the process left behind
    \* hfscrapper.py
    hpc,                \* where the script is
    offset,             \* the pagination offset
    spaces,             \* the page being processed
    si,                 \* position of the for loop in spaces
    files,              \* file paths the walk has collected
    directories,        \* the walk's queue of directories
    fi,                 \* position of the scan loop in files
    keys,               \* the set of keys found
    keys_txt,           \* the lines of keys.txt
    \* history of hfscrapper.py, read by the properties only
    listedDirs,         \* directories of this walk whose listing was read whole
    failedDirs,         \* directories of this walk whose listing failed
    enum,               \* "ok", "failed" once a page request failed, "again"
                        \* once a page was requested after that
    delayed,            \* the walk slept since its last listing request
    walkLog,            \* the results of the walks that ended, in order
    \* main.py
    mpc,                \* where main() of main.py is
    page,               \* get_all_spaces: the page number
    all_spaces,         \* get_all_spaces: the ids collected (spaces)
    all_spaces_txt,     \* the lines of results/all_spaces.txt
    num_threads,        \* max_workers of the pool
    tasks,              \* the futures, in the order they were submitted
    collected_keys,     \* found_keys of main(): the collected (space, key) pairs
    found_keys_txt      \* the lines of results/found_keys.txt

diskVars == <<seen_file_exists, seen_file, key_files, download_dirs>>
mainVars == <<pc, seen_spaces, initial_spaces, bi, new_spaces_to_scan, i,
              found_keys, ki, faults>>
histVars == <<acked, baselineMissing, detected, rmFailed, killedIn>>
hfsVars == <<hpc, offset, spaces, si, files, directories, fi, keys, keys_txt,
             listedDirs, failedDirs, enum, delayed, walkLog>>
mpVars == <<mpc, page, all_spaces, all_spaces_txt, num_threads, tasks,
            collected_keys, found_keys_txt>>

vars == <<diskVars, mainVars, histVars, hfsVars, mpVars>>

\* every sequence over S of length at most n
SeqsUpTo(S, n) == UNION {[1..m -> S] : m \in 0..n}

\* what list_spaces() can return: the spaces of the hub at that time, in any
\* order; an entry may be repeated when the catalog changes between pages
Listings == SeqsUpTo(Ids, MaxListing)

\* load_seen_spaces
load_seen_spaces ==
    IF ~seen_file_exists THEN {} ELSE {Strip(line) : line \in seen_file}

\* the log opened in mode "w" instead: what it held is gone
save_seen_space_truncating(id) ==
    /\ seen_file' = {id}
    /\ seen_file_exists' = TRUE

\* save_seen_space: the file opened in mode "a", the line id + "\n" written
save_seen_space(id) ==
    /\ seen_file' = (IF seen_file_exists THEN seen_file ELSE {}) \cup {id}
    /\ seen_file_exists' = TRUE

\* save_key_to_file: one line appended to the file of the kind
\* (cur marks the lines this process wrote; the file holds key and space)
save_key_to_file(kind, key, id) ==
    key_files' = [key_files EXCEPT
                    ![kind] = Append(@, [key |-> key, space |-> id, cur |-> TRUE])]

space_id == new_spaces_to_scan[i]

Running == pc \notin {"dead", "exited"}

\* main() is inside the processing of one space (lines 185-227)
ProcessingStates == {"download", "scan", "save", "persist", "finally"}

\* main() is inside the while loop (lines 143-238)
LoopStates == {"cycle", "loop", "sleep"} \cup ProcessingStates

\* the ids whose download directory is the one of id
SameDir(id) == {other \in Ids : DirName(other) = DirName(id)}

ScState0 ==
    /\ seen_file_exists = FALSE
    /\ seen_file = {}
    /\ key_files = [kind \in Range(Kinds) |-> <<>>]
    /\ download_dirs = {}
    /\ seen_spaces = {}
    /\ initial_spaces = <<>>
    /\ bi = 1
    /\ new_spaces_to_scan = <<>>
    /\ i = 1
    /\ found_keys = <<>>
    /\ ki = 1
    /\ faults = 0
    /\ acked = {}
    /\ baselineMissing = {}
    /\ detected = {}
    /\ rmFailed = {}
    /\ killedIn = {}

\* lines 114-119: main() is entered
ScInit == ScState0 /\ pc = "start"

\* lines 10, 14 of hfscrapper.py: keys = set(), offset = 0
HfsState0 ==
    /\ offset = 0
    /\ spaces = <<>>
    /\ si = 1
    /\ files = <<>>
    /\ directories = <<>>
    /\ fi = 1
    /\ keys = {}
    /\ keys_txt = <<>>
    /\ listedDirs = {}
    /\ failedDirs = {}
    /\ enum = "ok"
    /\ delayed = TRUE
    /\ walkLog = <<>>

\* hfscrapper.py not running
HfsIdle == HfsState0 /\ hpc = "idle"

\* lines 11-12, 115 of main.py: spaces = [], page = 1, found_keys = []
MpState0 ==
    /\ page = 1
    /\ all_spaces = <<>>
    /\ all_spaces_txt = <<>>
    /\ num_threads = 0
    /\ tasks = <<>>
    /\ collected_keys = <<>>
    /\ found_keys_txt = <<>>

\* main.py not running
MpIdle == MpState0 /\ mpc = "idle"

\* lines 138-140: the log exists, it is loaded
StartLoad ==
    /\ pc = "start"
    /\ seen_file_exists
    /\ seen_spaces' = load_seen_spaces
    /\ pc' = "cycle"
    /\ UNCHANGED <<seen_file_exists, seen_file, key_files, download_dirs,
                   initial_spaces, bi, new_spaces_to_scan, i, found_keys, ki,
                   faults, acked, baselineMissing, detected, rmFailed>>
    /\ UNCHANGED killedIn
    /\ UNCHANGED hfsVars
    /\ UNCHANGED mpVars

\* lines 121-127: first run, the catalog is listed and the log opened in mode "w"
BaselineList ==
    /\ pc = "start"
    /\ ~seen_file_exists
    /\ \E ls \in Listings :
          /\ initial_spaces' = ls
          /\ baselineMissing' = Range(ls)
    /\ seen_spaces' = {}
    /\ seen_file_exists' = TRUE
    /\ seen_file' = {}
    /\ bi' = 1
    /\ pc' = "baseline"
    /\ UNCHANGED <<key_files, download_dirs, new_spaces_to_scan, i,
                   found_keys, ki, faults, acked, detected, rmFailed>>
    /\ UNCHANGED killedIn
    /\ UNCHANGED hfsVars
    /\ UNCHANGED mpVars

\* lines 125, 133-137: list_spaces raises, main returns
BaselineListFails ==
    /\ faults < MaxFaults
    /\ faults' = faults + 1
    /\ pc = "start"
    /\ ~seen_file_exists
    /\ pc' = "exited"
    /\ UNCHANGED <<seen_file_exists, seen_file, key_files, download_dirs,
                   seen_spaces, initial_spaces, bi, new_spaces_to_scan, i,
                   found_keys, ki, acked, baselineMissing, detected,
                   rmFailed>>
    /\ UNCHANGED killedIn
    /\ UNCHANGED hfsVars
    /\ UNCHANGED mpVars

\* the lines of the log once the first k ids of the baseline are on the disk
Flushed(k) == Range(SubSeq(initial_spaces, 1, k))

\* the baseline loop with the id left out of the in-memory set
BaselineWrite_NotAdded ==
    /\ pc = "baseline"
    /\ bi <= Len(initial_spaces)
    /\ \E k \in 0..bi :
          /\ seen_file \subseteq Flushed(k)
          /\ seen_file' = Flushed(k)
          /\ baselineMissing' = baselineMissing \ Flushed(k)
    /\ bi' = bi + 1
    /\ UNCHANGED <<seen_file_exists, key_files, download_dirs, pc, seen_spaces,
                   initial_spaces, new_spaces_to_scan, i, found_keys, ki,
                   faults, acked, detected, rmFailed>>
    /\ UNCHANGED killedIn
    /\ UNCHANGED hfsVars
    /\ UNCHANGED mpVars

\* lines 128-131: one id written to the log and added to the set; the write
\* is buffered, any number of the lines written so far is on the disk
BaselineWrite ==
    /\ pc = "baseline"
    /\ bi <= Len(initial_spaces)
    /\ \E k \in 0..bi :
          /\ seen_file \subseteq Flushed(k)
          /\ seen_file' = Flushed(k)
          /\ baselineMissing' = baselineMissing \ Flushed(k)
    /\ seen_spaces' = seen_spaces \cup {initial_spaces[bi]}
    /\ bi' = bi + 1
    /\ UNCHANGED <<seen_file_exists, key_files, download_dirs, pc,
                   initial_spaces, new_spaces_to_scan, i, found_keys, ki,
                   faults, acked, detected, rmFailed>>
    /\ UNCHANGED killedIn
    /\ UNCHANGED hfsVars
    /\ UNCHANGED mpVars

\* lines 127-137: a write to the log or its close raises, the file is closed
\* with the lines that reached the disk, main returns
BaselineWriteFails ==
    /\ faults < MaxFaults
    /\ faults' = faults + 1
    /\ pc = "baseline"
    /\ \E k \in 0..(bi - 1) :
          /\ seen_file \subseteq Flushed(k)
          /\ seen_file' = Flushed(k)
          /\ baselineMissing' = baselineMissing \ Flushed(k)
    /\ pc' = "exited"
    /\ UNCHANGED <<seen_file_exists, key_files, download_dirs,
                   seen_spaces, initial_spaces, bi, new_spaces_to_scan, i,
                   found_keys, ki, acked, detected, rmFailed>>
    /\ UNCHANGED killedIn
    /\ UNCHANGED hfsVars
    /\ UNCHANGED mpVars

\* lines 127, 132: the file is closed with every line in it, the baseline is
\* complete, the scan loop is entered
BaselineDone ==
    /\ pc = "baseline"
    /\ bi > Len(initial_spaces)
    /\ seen_file' = Range(initial_spaces)
    /\ baselineMissing' = {}
    /\ pc' = "cycle"
    /\ UNCHANGED <<seen_file_exists, key_files, download_dirs,
                   seen_spaces, initial_spaces, bi, new_spaces_to_scan, i,
                   found_keys, ki, faults, acked, detected, rmFailed>>
    /\ UNCHANGED killedIn
    /\ UNCHANGED hfsVars
    /\ UNCHANGED mpVars

\* lines 162-166: the spaces of the listing that are not in seen_spaces
NotSeen(ls) == SelectSeq(ls, LAMBDA id : id \notin seen_spaces)

\* lines 159-172: the catalog is listed and filtered
FetchList ==
    /\ pc = "cycle"
    /\ \E ls \in Listings : new_spaces_to_scan' = NotSeen(ls)
    /\ i' = 1
    /\ pc' = "loop"
    /\ UNCHANGED <<seen_file_exists, seen_file, key_files, download_dirs,
                   seen_spaces, initial_spaces, bi, found_keys, ki, faults,
                   acked, baselineMissing, detected, rmFailed>>
    /\ UNCHANGED killedIn
    /\ UNCHANGED hfsVars
    /\ UNCHANGED mpVars

\* list_spaces raising with no handler around the cycle: main() ends
FetchListFails_Exits ==
    /\ faults < MaxFaults
    /\ faults' = faults + 1
    /\ pc = "cycle"
    /\ pc' = "exited"
    /\ UNCHANGED <<seen_file_exists, seen_file, key_files, download_dirs,
                   seen_spaces, initial_spaces, bi, new_spaces_to_scan, i,
                   found_keys, ki, acked, baselineMissing, detected,
                   rmFailed>>
    /\ UNCHANGED killedIn
    /\ UNCHANGED hfsVars
    /\ UNCHANGED mpVars

\* lines 159, 234-235: list_spaces raises, the cycle ends
FetchListFails ==
    /\ faults < MaxFaults
    /\ faults' = faults + 1
    /\ pc = "cycle"
    /\ pc' = "sleep"
    /\ UNCHANGED <<seen_file_exists, seen_file, key_files, download_dirs,
                   seen_spaces, initial_spaces, bi, new_spaces_to_scan, i,
                   found_keys, ki, acked, baselineMissing, detected,
                   rmFailed>>
    /\ UNCHANGED killedIn
    /\ UNCHANGED hfsVars
    /\ UNCHANGED mpVars

\* lines 174, 229-232: no space is left in this cycle
CycleEnd ==
    /\ pc = "loop"
    /\ i > Len(new_spaces_to_scan)
    /\ pc' = "sleep"
    /\ UNCHANGED <<seen_file_exists, seen_file, key_files, download_dirs,
                   seen_spaces, initial_spaces, bi, new_spaces_to_scan, i,
                   found_keys, ki, faults, acked, baselineMissing, detected,
                   rmFailed>>
    /\ UNCHANGED killedIn
    /\ UNCHANGED hfsVars
    /\ UNCHANGED mpVars

\* lines 174-183: the next space; a directory left from before is removed
PreClean ==
    /\ pc = "loop"
    /\ i <= Len(new_spaces_to_scan)
    /\ download_dirs' = download_dirs \ {DirName(space_id)}
    /\ rmFailed' = rmFailed \ SameDir(space_id)
    /\ killedIn' = killedIn \ SameDir(space_id)
    /\ pc' = "download"
    /\ UNCHANGED <<seen_file_exists, seen_file, key_files, seen_spaces,
                   initial_spaces, bi, new_spaces_to_scan, i, found_keys, ki,
                   faults, acked, baselineMissing, detected>>
    /\ UNCHANGED hfsVars
    /\ UNCHANGED mpVars

\* lines 181-183, 234-235: that removal raises, outside the inner try
PreCleanFails ==
    /\ faults < MaxFaults
    /\ faults' = faults + 1
    /\ pc = "loop"
    /\ i <= Len(new_spaces_to_scan)
    /\ DirName(space_id) \in download_dirs
    /\ rmFailed' = rmFailed \cup {space_id}
    /\ pc' = "sleep"
    /\ UNCHANGED <<seen_file_exists, seen_file, key_files, download_dirs,
                   seen_spaces, initial_spaces, bi, new_spaces_to_scan, i,
                   found_keys, ki, acked, baselineMissing, detected>>
    /\ UNCHANGED killedIn
    /\ UNCHANGED hfsVars
    /\ UNCHANGED mpVars

\* lines 185-196: snapshot_download returns
Download ==
    /\ pc = "download"
    /\ download_dirs' = download_dirs \cup {DirName(space_id)}
    /\ pc' = "scan"
    /\ UNCHANGED <<seen_file_exists, seen_file, key_files, seen_spaces,
                   initial_spaces, bi, new_spaces_to_scan, i, found_keys, ki,
                   faults, acked, baselineMissing, detected, rmFailed>>
    /\ UNCHANGED killedIn
    /\ UNCHANGED hfsVars
    /\ UNCHANGED mpVars

\* lines 189, 216-219: snapshot_download raises, with or without a directory
\* left behind
DownloadFails ==
    /\ faults < MaxFaults
    /\ faults' = faults + 1
    /\ pc = "download"
    /\ \E left \in BOOLEAN :
          download_dirs' = IF left THEN download_dirs \cup {DirName(space_id)}
                           ELSE download_dirs
    /\ pc' = "finally"
    /\ UNCHANGED <<seen_file_exists, seen_file, key_files, seen_spaces,
                   initial_spaces, bi, new_spaces_to_scan, i, found_keys, ki,
                   acked, baselineMissing, detected, rmFailed>>
    /\ UNCHANGED killedIn
    /\ UNCHANGED hfsVars
    /\ UNCHANGED mpVars

\* line 199: the downloaded files are scanned
Scan ==
    /\ pc = "scan"
    /\ found_keys' = SaveOrder(scan_directory_for_keys(Files(space_id)), 1)
    /\ ki' = 1
    /\ detected' = detected \cup {space_id}
    /\ pc' = "save"
    /\ UNCHANGED <<seen_file_exists, seen_file, key_files, download_dirs,
                   seen_spaces, initial_spaces, bi, new_spaces_to_scan, i,
                   faults, acked, baselineMissing, rmFailed>>
    /\ UNCHANGED killedIn
    /\ UNCHANGED hfsVars
    /\ UNCHANGED mpVars

\* lines 199, 216-219: the scan raises
ScanRaises ==
    /\ faults < MaxFaults
    /\ faults' = faults + 1
    /\ pc = "scan"
    /\ pc' = "finally"
    /\ UNCHANGED <<seen_file_exists, seen_file, key_files, download_dirs,
                   seen_spaces, initial_spaces, bi, new_spaces_to_scan, i,
                   found_keys, ki, acked, baselineMissing, detected,
                   rmFailed>>
    /\ UNCHANGED killedIn
    /\ UNCHANGED hfsVars
    /\ UNCHANGED mpVars

\* lines 204-207, 105-108: one key appended to the file of its kind
SaveKey ==
    /\ pc = "save"
    /\ ki <= Len(found_keys)
    /\ save_key_to_file(found_keys[ki][1], found_keys[ki][2], space_id)
    /\ ki' = ki + 1
    /\ UNCHANGED <<seen_file_exists, seen_file, download_dirs, pc,
                   seen_spaces, initial_spaces, bi, new_spaces_to_scan, i,
                   found_keys, faults, acked, baselineMissing, detected,
                   rmFailed>>
    /\ UNCHANGED killedIn
    /\ UNCHANGED hfsVars
    /\ UNCHANGED mpVars

\* lines 105-110: the append raises; save_key_to_file prints and returns
SaveKeyFails ==
    /\ faults < MaxFaults
    /\ faults' = faults + 1
    /\ pc = "save"
    /\ ki <= Len(found_keys)
    /\ ki' = ki + 1
    /\ UNCHANGED <<seen_file_exists, seen_file, key_files, download_dirs, pc,
                   seen_spaces, initial_spaces, bi, new_spaces_to_scan, i,
                   found_keys, acked, baselineMissing, detected, rmFailed>>
    /\ UNCHANGED killedIn
    /\ UNCHANGED hfsVars
    /\ UNCHANGED mpVars

\* line 213: seen_spaces.add(space_id)
MarkSeen ==
    /\ pc = "save"
    /\ ki > Len(found_keys)
    /\ seen_spaces' = seen_spaces \cup {space_id}
    /\ pc' = "persist"
    /\ UNCHANGED <<seen_file_exists, seen_file, key_files, download_dirs,
                   initial_spaces, bi, new_spaces_to_scan, i, found_keys, ki,
                   faults, acked, baselineMissing, detected, rmFailed>>
    /\ UNCHANGED killedIn
    /\ UNCHANGED hfsVars
    /\ UNCHANGED mpVars

\* line 214: save_seen_space(space_id) returns
PersistSeen ==
    /\ pc = "persist"
    /\ save_seen_space(space_id)
    /\ acked' = acked \cup {space_id}
    /\ pc' = "finally"
    /\ UNCHANGED <<key_files, download_dirs,
                   seen_spaces, initial_spaces, bi, new_spaces_to_scan, i,
                   found_keys, ki, faults, baselineMissing, detected,
                   rmFailed>>
    /\ UNCHANGED killedIn
    /\ UNCHANGED hfsVars
    /\ UNCHANGED mpVars

\* lines 214, 216-219: save_seen_space raises
PersistSeenFails ==
    /\ faults < MaxFaults
    /\ faults' = faults + 1
    /\ pc = "persist"
    /\ pc' = "finally"
    /\ UNCHANGED <<seen_file_exists, seen_file, key_files, download_dirs,
                   seen_spaces, initial_spaces, bi, new_spaces_to_scan, i,
                   found_keys, ki, acked, baselineMissing, detected,
                   rmFailed>>
    /\ UNCHANGED killedIn
    /\ UNCHANGED hfsVars
    /\ UNCHANGED mpVars

\* lines 220-227: the download directory is removed if it exists
\* lines 220-227: the directory is removed if it exists, the loop moves on
Cleanup ==
    /\ pc = "finally"
    /\ download_dirs' = download_dirs \ {DirName(space_id)}
    /\ rmFailed' = rmFailed \ SameDir(space_id)
    /\ killedIn' = killedIn \ SameDir(space_id)
    /\ i' = i + 1
    /\ pc' = "loop"
    /\ UNCHANGED <<seen_file_exists, seen_file, key_files, seen_spaces,
                   initial_spaces, bi, new_spaces_to_scan, found_keys, ki,
                   faults, acked, baselineMissing, detected>>
    /\ UNCHANGED hfsVars
    /\ UNCHANGED mpVars

\* lines 222-224, 234-235: shutil.rmtree raises inside finally; the exception
\* leaves the for loop and is caught by the cycle's except
CleanupFails ==
    /\ faults < MaxFaults
    /\ faults' = faults + 1
    /\ pc = "finally"
    /\ DirName(space_id) \in download_dirs
    /\ rmFailed' = rmFailed \cup {space_id}
    /\ pc' = "sleep"
    /\ UNCHANGED <<seen_file_exists, seen_file, key_files, download_dirs,
                   seen_spaces, initial_spaces, bi, new_spaces_to_scan, i,
                   found_keys, ki, acked, baselineMissing, detected>>
    /\ UNCHANGED killedIn
    /\ UNCHANGED hfsVars
    /\ UNCHANGED mpVars

\* lines 237-238: the inter-cycle sleep is over
Sleep ==
    /\ pc = "sleep"
    /\ pc' = "cycle"
    /\ UNCHANGED <<seen_file_exists, seen_file, key_files, download_dirs,
                   seen_spaces, initial_spaces, bi, new_spaces_to_scan, i,
                   found_keys, ki, faults, acked, baselineMissing, detected,
                   rmFailed>>
    /\ UNCHANGED killedIn
    /\ UNCHANGED hfsVars
    /\ UNCHANGED mpVars

\* the process is killed; its variables are gone, the disk stays (a kill
\* inside snapshot_download can leave a partial directory)
Crash ==
    /\ faults < MaxFaults
    /\ faults' = faults + 1
    /\ Running
    /\ pc' = "dead"
    /\ seen_spaces' = {}
    /\ initial_spaces' = <<>>
    /\ bi' = 1
    /\ new_spaces_to_scan' = <<>>
    /\ i' = 1
    /\ found_keys' = <<>>
    /\ ki' = 1
    /\ \E left \in BOOLEAN :
          download_dirs' = IF pc = "download" /\ left
                           THEN download_dirs \cup {DirName(space_id)}
                           ELSE download_dirs
    /\ killedIn' = IF pc \in ProcessingStates /\ DirName(space_id) \in download_dirs'
                   THEN killedIn \cup {space_id} ELSE killedIn
    /\ UNCHANGED <<seen_file_exists, seen_file, key_files,
                   acked, baselineMissing, detected, rmFailed>>
    /\ UNCHANGED hfsVars
    /\ UNCHANGED mpVars

\* the program is started again: a new process
Restart ==
    /\ pc \in {"dead", "exited"}
    /\ pc' = "start"
    /\ seen_spaces' = {}
    /\ initial_spaces' = <<>>
    /\ bi' = 1
    /\ new_spaces_to_scan' = <<>>
    /\ i' = 1
    /\ found_keys' = <<>>
    /\ ki' = 1
    /\ key_files' = [kind \in Range(Kinds) |->
                       [k \in DOMAIN key_files[kind] |->
                          [key_files[kind][k] EXCEPT !.cur = FALSE]]]
    /\ UNCHANGED <<seen_file_exists, seen_file, download_dirs, faults, acked,
                   baselineMissing, detected, rmFailed>>
    /\ UNCHANGED killedIn
    /\ UNCHANGED hfsVars
    /\ UNCHANGED mpVars

(* ----------------------------- hfscrapper.py --------------------------- *)
(* The script pages through the catalog, walks the tree of each space and  *)
(* reads every file.  The remote side is a catalog of two pages, a tree    *)
(* per space and a content per file.                                       *)
Limit == 100
OffsetStep == 100

HPages ==
    << << [author |-> "u", id |-> "a"], [author |-> "", id |-> "b"] >>,
       << [author |-> "v", id |-> "a"], [author |-> "u", id |-> "a"] >> >>

\* the answer to /api/spaces?limit=100&offset=off
PageAt(off) ==
    IF off \div Limit + 1 \in DOMAIN HPages THEN HPages[off \div Limit + 1]
    ELSE <<>>

File(path) == [type |-> "file", path |-> path]
Directory(path) == [type |-> "directory", path |-> path]

\* the answer to /api/spaces/{author}/{repo_id}/tree/main/{dir}
Tree(space, dir) ==
    IF space.author = "u"
    THEN CASE dir = "" -> <<File("a.py"), Directory("d1"), Directory("d2")>>
           [] dir = "d1" -> <<File("d1/b.py"), Directory("d1/e")>>
           [] dir = "d1/e" -> <<File("d1/e/c.py")>>
           [] dir = "d2" -> <<File("d2/f.bin")>>
           [] OTHER -> <<>>
    ELSE CASE dir = "" -> <<File("app.py")>>
           [] OTHER -> <<>>

KeyExt == [pre |-> "sk-", cls |-> "ext", n |-> 47, tag |-> 4, aa |-> FALSE]

\* the answer to /spaces/{author}/{repo_id}/raw/main/{path}
Content(space, path) ==
    CASE path = "a.py" -> <<KeyA, Short>>
      [] path = "d1/b.py" -> <<KeyA>>
      [] path = "d2/f.bin" -> <<KeyExt>>
      [] path = "app.py" -> <<KeyHex>>
      [] OTHER -> <<>>

OaiMin == 47

\* oai_regex, sk-[a-zA-Z0-9_-]{47,} : greedy, the whole run
MatchOai(tok) ==
    IF tok.pre = "sk-" /\ tok.cls \in {"hex", "alnum", "ext"} /\ tok.n >= OaiMin
    THEN <<Val(tok, tok.n)>> ELSE NoMatch

\* oai_regex.findall(content_response.text)
RECURSIVE OaiFindAll(_)
OaiFindAll(content) ==
    IF content = <<>> THEN <<>>
    ELSE MatchOai(Head(content)) \o OaiFindAll(Tail(content))

space == spaces[si]
current_dir == Head(directories)
file_path == files[fi]

ItemsOfType(items, type) ==
    LET sel == SelectSeq(items, LAMBDA item : item.type = type)
    IN  [k \in DOMAIN sel |-> sel[k].path]

scanLocals == <<pc, seen_spaces, initial_spaces, bi, new_spaces_to_scan, i,
                found_keys, ki>>

\* one more page request is sent
Requested == IF enum = "failed" THEN "again" ELSE enum
\* and it fails
RequestFailed == IF enum = "failed" THEN "again" ELSE "failed"

\* lines 18-29: the page is read; an empty one ends the script
HPageRequest ==
    /\ hpc = "page"
    /\ spaces' = PageAt(offset)
    /\ si' = 1
    /\ hpc' = IF PageAt(offset) = <<>> THEN "done" ELSE "space"
    /\ enum' = Requested
    /\ UNCHANGED <<offset, files, directories, fi, keys, keys_txt, listedDirs,
                   failedDirs, faults>>
    /\ UNCHANGED <<delayed, walkLog>>
    /\ UNCHANGED <<diskVars, histVars, scanLocals, mpVars>>

\* lines 22-23: a status other than 200 breaks out of the loop
HPageNon200 ==
    /\ faults < MaxFaults
    /\ faults' = faults + 1
    /\ hpc = "page"
    /\ hpc' = "done"
    /\ enum' = RequestFailed
    /\ UNCHANGED <<offset, spaces, si, files, directories, fi, keys, keys_txt,
                   listedDirs, failedDirs>>
    /\ UNCHANGED <<delayed, walkLog>>
    /\ UNCHANGED <<diskVars, histVars, scanLocals, mpVars>>

\* lines 18, 25, 76-80: the request or response.json() raises; the handler
\* prints and the loop goes on with the next offset
HPageRaises ==
    /\ faults < MaxFaults
    /\ faults' = faults + 1
    /\ hpc = "page"
    /\ offset' = offset + OffsetStep
    /\ hpc' = "page"
    /\ enum' = RequestFailed
    /\ UNCHANGED <<spaces, si, files, directories, fi, keys, keys_txt,
                   listedDirs, failedDirs>>
    /\ UNCHANGED <<delayed, walkLog>>
    /\ UNCHANGED <<diskVars, histVars, scanLocals, mpVars>>

\* lines 30-33: an entry without author or id is passed over
HSpaceSkip ==
    /\ hpc = "space"
    /\ si <= Len(spaces)
    /\ space.author = "" \/ space.id = ""
    /\ si' = si + 1
    /\ UNCHANGED <<hpc, offset, spaces, files, directories, fi, keys, keys_txt,
                   listedDirs, failedDirs, enum, faults>>
    /\ UNCHANGED <<delayed, walkLog>>
    /\ UNCHANGED <<diskVars, histVars, scanLocals, mpVars>>

\* lines 30, 76-80: an entry that is not an object makes space.get raise; the
\* rest of the page is dropped
HSpaceRaises ==
    /\ faults < MaxFaults
    /\ faults' = faults + 1
    /\ hpc = "space"
    /\ si <= Len(spaces)
    /\ offset' = offset + OffsetStep
    /\ hpc' = "page"
    /\ UNCHANGED <<spaces, si, files, directories, fi, keys, keys_txt,
                   listedDirs, failedDirs, enum>>
    /\ UNCHANGED <<delayed, walkLog>>
    /\ UNCHANGED <<diskVars, histVars, scanLocals, mpVars>>

\* a walk that starts with the result of the walk before it
HWalkStart_KeepFiles ==
    /\ hpc = "space"
    /\ si <= Len(spaces)
    /\ space.author # "" /\ space.id # ""
    /\ directories' = <<"">>
    /\ listedDirs' = {}
    /\ failedDirs' = {}
    /\ hpc' = "walk"
    /\ UNCHANGED <<offset, spaces, si, files, fi, keys, keys_txt, enum, faults>>
    /\ delayed' = TRUE
    /\ UNCHANGED walkLog
    /\ UNCHANGED <<diskVars, histVars, scanLocals, mpVars>>

\* lines 38-39: the walk of the space starts at the root
HWalkStart ==
    /\ hpc = "space"
    /\ si <= Len(spaces)
    /\ space.author # "" /\ space.id # ""
    /\ files' = <<>>
    /\ directories' = <<"">>
    /\ listedDirs' = {}
    /\ failedDirs' = {}
    /\ hpc' = "walk"
    /\ UNCHANGED <<offset, spaces, si, fi, keys, keys_txt, enum, faults>>
    /\ delayed' = TRUE
    /\ UNCHANGED walkLog
    /\ UNCHANGED <<diskVars, histVars, scanLocals, mpVars>>

\* a listing whose directories are put into the result as well
HWalkList_DirsAsFiles ==
    /\ hpc = "walk"
    /\ directories # <<>>
    /\ LET items == Tree(space, current_dir)
       IN  /\ files' = files \o [k \in DOMAIN items |-> items[k].path]
           /\ directories' = Tail(directories) \o ItemsOfType(items, "directory")
    /\ listedDirs' = listedDirs \cup {current_dir}
    /\ UNCHANGED <<hpc, offset, spaces, si, fi, keys, keys_txt, failedDirs,
                   enum, faults>>
    /\ delayed' = TRUE
    /\ UNCHANGED walkLog
    /\ UNCHANGED <<diskVars, histVars, scanLocals, mpVars>>

\* lines 41-55: the directory is listed, its files and directories are
\* taken, then time.sleep(0.3)
HWalkList ==
    /\ hpc = "walk"
    /\ directories # <<>>
    /\ LET items == Tree(space, current_dir)
       IN  /\ files' = files \o ItemsOfType(items, "file")
           /\ directories' = Tail(directories) \o ItemsOfType(items, "directory")
    /\ listedDirs' = listedDirs \cup {current_dir}
    /\ UNCHANGED <<hpc, offset, spaces, si, fi, keys, keys_txt, failedDirs,
                   enum, faults>>
    /\ delayed' = TRUE
    /\ UNCHANGED walkLog
    /\ UNCHANGED <<diskVars, histVars, scanLocals, mpVars>>

\* a failed listing that ends the walk: break in place of continue
HWalkNon200_Break ==
    /\ faults < MaxFaults
    /\ faults' = faults + 1
    /\ hpc = "walk"
    /\ directories # <<>>
    /\ directories' = <<>>
    /\ failedDirs' = failedDirs \cup {current_dir}
    /\ UNCHANGED <<hpc, offset, spaces, si, files, fi, keys, keys_txt,
                   listedDirs, enum>>
    /\ delayed' = FALSE
    /\ UNCHANGED walkLog
    /\ UNCHANGED <<diskVars, histVars, scanLocals, mpVars>>

\* lines 47-48: a status other than 200, the walk goes on with the queue
\* (continue passes over the sleep of line 55)
HWalkNon200 ==
    /\ faults < MaxFaults
    /\ faults' = faults + 1
    /\ hpc = "walk"
    /\ directories # <<>>
    /\ directories' = Tail(directories)
    /\ failedDirs' = failedDirs \cup {current_dir}
    /\ UNCHANGED <<hpc, offset, spaces, si, files, fi, keys, keys_txt,
                   listedDirs, enum>>
    /\ delayed' = FALSE
    /\ UNCHANGED walkLog
    /\ UNCHANGED <<diskVars, histVars, scanLocals, mpVars>>

\* lines 43, 50, 56-57: the request or dir_response.json() raises
HWalkRaises ==
    /\ faults < MaxFaults
    /\ faults' = faults + 1
    /\ hpc = "walk"
    /\ directories # <<>>
    /\ directories' = Tail(directories)
    /\ failedDirs' = failedDirs \cup {current_dir}
    /\ UNCHANGED <<hpc, offset, spaces, si, files, fi, keys, keys_txt,
                   listedDirs, enum>>
    /\ delayed' = FALSE
    /\ UNCHANGED walkLog
    /\ UNCHANGED <<diskVars, histVars, scanLocals, mpVars>>

\* lines 50-57: item k of the listing has no 'type' or no 'path'; the items
\* before it were taken
HWalkMalformed ==
    /\ faults < MaxFaults
    /\ faults' = faults + 1
    /\ hpc = "walk"
    /\ directories # <<>>
    /\ \E k \in DOMAIN Tree(space, current_dir) :
          LET items == SubSeq(Tree(space, current_dir), 1, k - 1)
          IN  /\ files' = files \o ItemsOfType(items, "file")
              /\ directories' =
                    Tail(directories) \o ItemsOfType(items, "directory")
    /\ failedDirs' = failedDirs \cup {current_dir}
    /\ UNCHANGED <<hpc, offset, spaces, si, fi, keys, keys_txt, listedDirs,
                   enum>>
    /\ delayed' = FALSE
    /\ UNCHANGED walkLog
    /\ UNCHANGED <<diskVars, histVars, scanLocals, mpVars>>

\* lines 40, 60: the queue is empty, the files are read next
HWalkDone ==
    /\ hpc = "walk"
    /\ directories = <<>>
    /\ fi' = 1
    /\ hpc' = "fetch"
    /\ UNCHANGED <<offset, spaces, si, files, directories, keys, keys_txt,
                   listedDirs, failedDirs, enum, faults>>
    /\ walkLog' = Append(walkLog, [space |-> space, paths |-> Range(files),
                                    failed |-> failedDirs # {}])
    /\ UNCHANGED delayed
    /\ UNCHANGED <<diskVars, histVars, scanLocals, mpVars>>

\* lines 62-72: the file is read, every match is added and appended
HFetch ==
    /\ hpc = "fetch"
    /\ fi <= Len(files)
    /\ LET found_keys_ == OaiFindAll(Content(space, file_path))
       IN  /\ keys' = keys \cup Range(found_keys_)
           /\ keys_txt' = keys_txt \o found_keys_
    /\ fi' = fi + 1
    /\ UNCHANGED <<hpc, offset, spaces, si, files, directories, listedDirs,
                   failedDirs, enum, faults>>
    /\ UNCHANGED <<delayed, walkLog>>
    /\ UNCHANGED <<diskVars, histVars, scanLocals, mpVars>>

\* lines 66, 72: a status other than 200, nothing is taken from the file
HFetchNon200 ==
    /\ faults < MaxFaults
    /\ faults' = faults + 1
    /\ hpc = "fetch"
    /\ fi <= Len(files)
    /\ fi' = fi + 1
    /\ UNCHANGED <<hpc, offset, spaces, si, files, directories, keys, keys_txt,
                   listedDirs, failedDirs, enum>>
    /\ UNCHANGED <<delayed, walkLog>>
    /\ UNCHANGED <<diskVars, histVars, scanLocals, mpVars>>

\* lines 62, 73-74: the request raises
HFetchRaises ==
    /\ faults < MaxFaults
    /\ faults' = faults + 1
    /\ hpc = "fetch"
    /\ fi <= Len(files)
    /\ fi' = fi + 1
    /\ UNCHANGED <<hpc, offset, spaces, si, files, directories, keys, keys_txt,
                   listedDirs, failedDirs, enum>>
    /\ UNCHANGED <<delayed, walkLog>>
    /\ UNCHANGED <<diskVars, histVars, scanLocals, mpVars>>

\* lines 68-74: append_to_file raises at match k, after keys.add(key); the
\* rest of the file's matches is dropped
HAppendRaises ==
    /\ faults < MaxFaults
    /\ faults' = faults + 1
    /\ hpc = "fetch"
    /\ fi <= Len(files)
    /\ LET found_keys_ == OaiFindAll(Content(space, file_path))
       IN  \E k \in DOMAIN found_keys_ :
              /\ keys' = keys \cup Range(SubSeq(found_keys_, 1, k))
              /\ keys_txt' = keys_txt \o SubSeq(found_keys_, 1, k - 1)
    /\ fi' = fi + 1
    /\ UNCHANGED <<hpc, offset, spaces, si, files, directories, listedDirs,
                   failedDirs, enum>>
    /\ UNCHANGED <<delayed, walkLog>>
    /\ UNCHANGED <<diskVars, histVars, scanLocals, mpVars>>

\* lines 29, 60: the files are done, the next entry of the page is taken
HFetchDone ==
    /\ hpc = "fetch"
    /\ fi > Len(files)
    /\ si' = si + 1
    /\ hpc' = "space"
    /\ UNCHANGED <<offset, spaces, files, directories, fi, keys, keys_txt,
                   listedDirs, failedDirs, enum, faults>>
    /\ UNCHANGED <<delayed, walkLog>>
    /\ UNCHANGED <<diskVars, histVars, scanLocals, mpVars>>

\* lines 29, 79-80: the page is done, the offset moves on
HPageEnd ==
    /\ hpc = "space"
    /\ si > Len(spaces)
    /\ offset' = offset + OffsetStep
    /\ hpc' = "page"
    /\ UNCHANGED <<spaces, si, files, directories, fi, keys, keys_txt,
                   listedDirs, failedDirs, enum, faults>>
    /\ UNCHANGED <<delayed, walkLog>>
    /\ UNCHANGED <<diskVars, histVars, scanLocals, mpVars>>

(* -------------------------------- main.py ------------------------------ *)
\* line 64: the extensions of the files that are fetched
Allowlist ==
    { <<".", "p", "y">>, <<".", "i", "p", "y", "n", "b">>, <<".", "t", "x", "t">>,
      <<".", "m", "d">>, <<".", "j", "s">>, <<".", "h", "t", "m", "l">>,
      <<".", "c", "s", "s">>, <<".", "y", "a", "m", "l">>, <<".", "y", "m", "l">>,
      <<".", "j", "s", "o", "n">>, <<".", "e", "n", "v">>,
      <<".", "c", "o", "n", "f", "i", "g">> }

\* the characters of the paths the remote side serves
PathChars(path) ==
    CASE path = "a.py" -> <<"a", ".", "p", "y">>
      [] path = "d1/b.py" -> <<"d", "1", "/", "b", ".", "p", "y">>
      [] path = "d1/e/c.py" -> <<"d", "1", "/", "e", "/", "c", ".", "p", "y">>
      [] path = "d2/f.bin" -> <<"d", "2", "/", "f", ".", "b", "i", "n">>
      [] path = "app.py" -> <<"a", "p", "p", ".", "p", "y">>
      [] path = "logo.png" -> <<"l", "o", "g", "o", ".", "p", "n", "g">>
      [] path = "py" -> <<"p", "y">>
      [] OTHER -> <<>>

\* str.endswith
EndsWith(chars, ext) ==
    /\ Len(chars) >= Len(ext)
    /\ SubSeq(chars, Len(chars) - Len(ext) + 1, Len(chars)) = ext

\* line 64: any(file['path'].endswith(ext) for ext in [...])
Allowlisted(path) == \E ext \in Allowlist : EndsWith(PathChars(path), ext)

\* largest max_workers the model draws
MaxThreads == 2

MainOpenAILen == 48

\* the answer to /api/spaces?limit=100&page=p&sort=likes: the ids of the page
\* (the catalog may repeat an id on a later page)
MPages == << <<"x", "y">>, <<"x">> >>

MPageAt(p) == IF p \in DOMAIN MPages THEN MPages[p] ELSE <<>>

\* the answer to /api/spaces/{space_id}/files: the paths
MFiles(id) ==
    IF id = "x" THEN <<"app.py", "logo.png">> ELSE <<"a.py", "py">>

\* A content is a sequence of items; an item is a token, bare (var = "") or
\* as the quoted value of an assignment  var = "token".
Item(var, tok) == [var |-> var, tok |-> tok]

Key47 == Tok("sk-", "alnum", 47, 5)
Key60 == Tok("sk-", "alnum", 60, 6)

\* the answer to /spaces/{space_id}/raw/{path}
MContent(id, path) ==
    CASE path = "app.py" -> <<Item("", KeyA), Item("openai_api_key", KeyA),
                              Item("api_key", Key47)>>
      [] path = "logo.png" -> <<Item("", KeyHex)>>
      [] path = "a.py" -> <<Item("", Key47), Item("", Key60)>>
      [] path = "py" -> <<Item("", KeyA)>>
      [] OTHER -> <<>>

\* line 40, sk-[a-zA-Z0-9]{48} : the first 48 characters of the run
MatchDirect(item) ==
    IF /\ item.tok.pre = "sk-"
       /\ item.tok.cls \in {"hex", "alnum"}
       /\ item.tok.n >= MainOpenAILen
    THEN <<Val(item.tok, MainOpenAILen)>> ELSE NoMatch

\* lines 41-45: the names the three patterns look for, in order
ConfigPatterns == <<"openai_api_key", "OPENAI_API_KEY", "api_key">>

\* name\s*=\s*['"]([^'"]+)['"] : the whole quoted value; "api_key" is also
\* found at the end of "openai_api_key"
MatchConfig(pattern, item) ==
    IF \/ item.var = pattern
       \/ (pattern = "api_key" /\ item.var = "openai_api_key")
    THEN <<Val(item.tok, item.tok.n)>> ELSE NoMatch

\* line 86: match.startswith('sk-')
StartsWithSk(value) == value.pre \in {"sk-", "sk-ant-", "sk-ant-api03-"}

\* line 77: openai_key_pattern.findall(content)
RECURSIVE FindAllDirect(_)
FindAllDirect(content) ==
    IF content = <<>> THEN <<>>
    ELSE MatchDirect(Head(content)) \o FindAllDirect(Tail(content))

\* line 84: pattern.findall(content)
RECURSIVE FindAllConfig(_, _)
FindAllConfig(pattern, content) ==
    IF content = <<>> THEN <<>>
    ELSE MatchConfig(pattern, Head(content))
             \o FindAllConfig(pattern, Tail(content))

\* lines 78-80: the matches not yet in found_keys are appended
RECURSIVE AppendNew(_, _)
AppendNew(found, matches) ==
    IF matches = <<>> THEN found
    ELSE AppendNew(IF Head(matches) \in Range(found) THEN found
                   ELSE Append(found, Head(matches)), Tail(matches))

\* lines 83-87: the config patterns from the k-th on
RECURSIVE AppendConfig(_, _, _)
AppendConfig(found, content, k) ==
    IF k > Len(ConfigPatterns) THEN found
    ELSE LET matches == FindAllConfig(ConfigPatterns[k], content)
             sk == SelectSeq(matches, StartsWithSk)
         IN  AppendConfig(AppendNew(found, sk), content, k + 1)

\* lines 74-87: one file's content searched
SearchContent(found, content) ==
    AppendConfig(AppendNew(found, FindAllDirect(content)), content, 1)

\* lines 59-90: the files from the k-th up to (not including) the stop-th;
\* the content requests of the files in non200 return another status
RECURSIVE SearchFiles(_, _, _, _, _)
SearchFiles(found, id, k, stop, non200) ==
    IF k >= stop \/ k > Len(MFiles(id)) THEN found
    ELSE LET path == MFiles(id)[k]
         IN  IF ~Allowlisted(path) \/ k \in non200
             THEN SearchFiles(found, id, k + 1, stop, non200)
             ELSE SearchFiles(SearchContent(found, MContent(id, path)),
                              id, k + 1, stop, non200)

\* line 95: the pairs (space_id, key)
Pairs(id, found) == [k \in DOMAIN found |-> <<id, found[k]>>]

\* search_for_openai_keys when an exception ends the loop at file stop
search_for_openai_keys(id, stop, non200) ==
    Pairs(id, SearchFiles(<<>>, id, 1, stop, non200))

Task(id) == [id |-> id, state |-> "queued", keys |-> <<>>]

InFlight == {t \in DOMAIN tasks : tasks[t].state = "running"}

mpRest == <<diskVars, histVars, scanLocals, hfsVars>>

\* lines 16-32: a page is read; an empty one ends get_all_spaces, and the ids
\* are written to results/all_spaces.txt (lines 102-109)
MPageRequest ==
    /\ mpc = "enumerate"
    /\ IF MPageAt(page) = <<>>
       THEN /\ mpc' = "threads"
            /\ all_spaces_txt' = all_spaces
            /\ UNCHANGED <<page, all_spaces>>
       ELSE /\ all_spaces' = all_spaces \o MPageAt(page)
            /\ page' = page + 1
            /\ UNCHANGED <<mpc, all_spaces_txt>>
    /\ UNCHANGED <<num_threads, tasks, collected_keys, found_keys_txt, faults>>
    /\ UNCHANGED mpRest

\* lines 19-21, 102-109: a status other than 200 breaks the loop, the spaces
\* found so far are returned
MPageNon200 ==
    /\ faults < MaxFaults
    /\ faults' = faults + 1
    /\ mpc = "enumerate"
    /\ mpc' = "threads"
    /\ all_spaces_txt' = all_spaces
    /\ UNCHANGED <<page, all_spaces, num_threads, tasks, collected_keys,
                   found_keys_txt>>
    /\ UNCHANGED mpRest

\* lines 17, 23, 102: requests.get or response.json() raises; nothing catches
\* it, main() ends with the exception
MPageRaises ==
    /\ faults < MaxFaults
    /\ faults' = faults + 1
    /\ mpc = "enumerate"
    /\ mpc' = "crashed"
    /\ UNCHANGED <<page, all_spaces, all_spaces_txt, num_threads, tasks,
                   collected_keys, found_keys_txt>>
    /\ UNCHANGED mpRest

\* lines 112-119: the host page supplies the number of threads, one task per
\* entry of spaces is submitted
MSubmit ==
    /\ mpc = "threads"
    /\ \E n \in 1..MaxThreads : num_threads' = n
    /\ tasks' = [k \in DOMAIN all_spaces |-> Task(all_spaces[k])]
    /\ mpc' = "pool"
    /\ UNCHANGED <<page, all_spaces, all_spaces_txt, collected_keys,
                   found_keys_txt, faults>>
    /\ UNCHANGED mpRest

\* line 112: run without a host that defines document, the name is not
\* defined: NameError, main() ends
MNoDocument ==
    /\ mpc = "threads"
    /\ mpc' = "crashed"
    /\ UNCHANGED <<page, all_spaces, all_spaces_txt, num_threads, tasks,
                   collected_keys, found_keys_txt, faults>>
    /\ UNCHANGED mpRest

\* a free worker takes the oldest queued task
TaskStart ==
    /\ mpc = "pool"
    /\ Cardinality(InFlight) < num_threads
    /\ \E t \in DOMAIN tasks :
          /\ tasks[t].state = "queued"
          /\ \A u \in 1..(t - 1) : tasks[u].state # "queued"
          /\ tasks' = [tasks EXCEPT ![t].state = "running"]
    /\ UNCHANGED <<mpc, page, all_spaces, all_spaces_txt, num_threads,
                   collected_keys, found_keys_txt, faults>>
    /\ UNCHANGED mpRest

\* lines 37-95: search_for_openai_keys returns what it found
TaskFinish ==
    /\ mpc = "pool"
    /\ \E t \in InFlight :
          tasks' = [tasks EXCEPT
                      ![t].state = "done",
                      ![t].keys = search_for_openai_keys(
                                      tasks[t].id, Len(MFiles(tasks[t].id)) + 1, {})]
    /\ UNCHANGED <<mpc, page, all_spaces, all_spaces_txt, num_threads,
                   collected_keys, found_keys_txt, faults>>
    /\ UNCHANGED mpRest

\* lines 53-55: the files request returns another status, the result is []
TaskFilesNon200 ==
    /\ faults < MaxFaults
    /\ faults' = faults + 1
    /\ mpc = "pool"
    /\ \E t \in InFlight :
          tasks' = [tasks EXCEPT ![t].state = "done", ![t].keys = <<>>]
    /\ UNCHANGED <<mpc, page, all_spaces, all_spaces_txt, num_threads,
                   collected_keys, found_keys_txt>>
    /\ UNCHANGED mpRest

\* lines 69-72: the content request of one file returns another status
TaskContentNon200 ==
    /\ faults < MaxFaults
    /\ faults' = faults + 1
    /\ mpc = "pool"
    /\ \E t \in InFlight : \E k \in DOMAIN MFiles(tasks[t].id) :
          /\ Allowlisted(MFiles(tasks[t].id)[k])
          /\ tasks' = [tasks EXCEPT
                         ![t].state = "done",
                         ![t].keys = search_for_openai_keys(
                                      tasks[t].id, Len(MFiles(tasks[t].id)) + 1, {k})]
    /\ UNCHANGED <<mpc, page, all_spaces, all_spaces_txt, num_threads,
                   collected_keys, found_keys_txt>>
    /\ UNCHANGED mpRest

\* lines 52-95: a request raises at file k (k = 0: the files request); the
\* handler prints, the keys found before are returned
TaskRaises ==
    /\ faults < MaxFaults
    /\ faults' = faults + 1
    /\ mpc = "pool"
    /\ \E t \in InFlight : \E k \in 0..Len(MFiles(tasks[t].id)) :
          tasks' = [tasks EXCEPT
                      ![t].state = "done",
                      ![t].keys = search_for_openai_keys(tasks[t].id, k, {})]
    /\ UNCHANGED <<mpc, page, all_spaces, all_spaces_txt, num_threads,
                   collected_keys, found_keys_txt>>
    /\ UNCHANGED mpRest

\* lines 122-132: as_completed yields a finished future, its keys are added
\* to found_keys
Collect ==
    /\ mpc = "pool"
    /\ \E t \in DOMAIN tasks :
          /\ tasks[t].state = "done"
          /\ tasks' = [tasks EXCEPT ![t].state = "collected"]
          /\ collected_keys' = collected_keys \o tasks[t].keys
    /\ UNCHANGED <<mpc, page, all_spaces, all_spaces_txt, num_threads,
                   found_keys_txt, faults>>
    /\ UNCHANGED mpRest

\* lines 118, 134-140: every future was collected, the results are written
WriteResults ==
    /\ mpc = "pool"
    /\ \A t \in DOMAIN tasks : tasks[t].state = "collected"
    /\ found_keys_txt' = collected_keys
    /\ mpc' = "done"
    /\ UNCHANGED <<page, all_spaces, all_spaces_txt, num_threads, tasks,
                   collected_keys, faults>>
    /\ UNCHANGED mpRest

Init == ScInit /\ HfsIdle /\ MpIdle

Next ==
    \/ StartLoad
    \/ BaselineList
    \/ BaselineListFails
    \/ BaselineWrite
    \/ BaselineWriteFails
    \/ BaselineDone
    \/ FetchList
    \/ FetchListFails
    \/ CycleEnd
    \/ PreClean
    \/ PreCleanFails
    \/ Download
    \/ DownloadFails
    \/ Scan
    \/ ScanRaises
    \/ SaveKey
    \/ SaveKeyFails
    \/ MarkSeen
    \/ PersistSeen
    \/ PersistSeenFails
    \/ Cleanup
    \/ CleanupFails
    \/ Sleep
    \/ Crash
    \/ Restart

Spec == Init /\ [][Next]_vars

\* a step of the running process (everything but the kill and the restart)
ProgramStep ==
    \/ StartLoad \/ BaselineList \/ BaselineListFails \/ BaselineWrite
    \/ BaselineWriteFails \/ BaselineDone \/ FetchList \/ FetchListFails
    \/ CycleEnd \/ PreClean \/ PreCleanFails \/ Download \/ DownloadFails
    \/ Scan \/ ScanRaises \/ SaveKey \/ SaveKeyFails \/ MarkSeen
    \/ PersistSeen \/ PersistSeenFails \/ Cleanup \/ CleanupFails \/ Sleep

\* a process that is not killed goes on: its calls and its sleep return
SpecFair == Spec /\ WF_vars(ProgramStep)

\* hfscrapper.py is run, the scanner is not
InitHfs == ScState0 /\ pc = "idle" /\ HfsState0 /\ hpc = "page" /\ MpIdle

NextHfs ==
    \/ HPageRequest
    \/ HPageNon200
    \/ HPageRaises
    \/ HSpaceSkip
    \/ HSpaceRaises
    \/ HWalkStart
    \/ HWalkList
    \/ HWalkNon200
    \/ HWalkRaises
    \/ HWalkMalformed
    \/ HWalkDone
    \/ HFetch
    \/ HFetchNon200
    \/ HFetchRaises
    \/ HAppendRaises
    \/ HFetchDone
    \/ HPageEnd

SpecHfs == InitHfs /\ [][NextHfs]_vars

\* the script is not killed: its requests and its sleeps return
SpecHfsFair == SpecHfs /\ WF_vars(NextHfs)

\* main.py is run, the other two programs are not
InitMain == ScState0 /\ pc = "idle" /\ HfsIdle /\ MpState0 /\ mpc = "enumerate"

NextMain ==
    \/ MPageRequest
    \/ MPageNon200
    \/ MPageRaises
    \/ MSubmit
    \/ MNoDocument
    \/ TaskStart
    \/ TaskFinish
    \/ TaskFilesNon200
    \/ TaskContentNon200
    \/ TaskRaises
    \/ Collect
    \/ WriteResults

SpecMain == InitMain /\ [][NextMain]_vars

(* ------------------- properties of the scanner's main() ---------------- *)
\* the findings a scan of the space reports, as (kind, key) pairs
Findings(id) == Range(SaveOrder(scan_directory_for_keys(Files(id)), 1))

\* the key file of the kind holds a line for the key and the space
Stored(kind, key, id) ==
    \E k \in DOMAIN key_files[kind] :
        key_files[kind][k].key = key /\ key_files[kind][k].space = id

\* C1: a space whose id is in the seen-spaces log has had every finding a scan
\* detected in it written to the key files (findings are persisted before the
\* space is marked seen, so nothing is lost silently).
C1_SeenImpliesPersisted ==
    \A id \in detected :
        id \in load_seen_spaces =>
            \A f \in Findings(id) : Stored(f[1], f[2], id)

\* C2: within one process lifetime the key files never receive two lines with
\* the same (space, kind, key).
C2_NoDuplicateFinding ==
    \A kind \in Range(Kinds) :
        \A a, b \in DOMAIN key_files[kind] :
            (a # b /\ key_files[kind][a].cur /\ key_files[kind][b].cur)
                => ~(/\ key_files[kind][a].key = key_files[kind][b].key
                     /\ key_files[kind][a].space = key_files[kind][b].space)

\* C3: the seen set is monotonic.  An id whose seen_spaces.add and
\* save_seen_space returned is in the log (so load_seen_spaces returns it after
\* any restart) and in seen_spaces of every process that is in the scan loop;
\* no step removes an id from the log, nor from the set of a live process.
C3_AckedInv ==
    /\ acked \subseteq load_seen_spaces
    /\ pc \in LoopStates => acked \subseteq seen_spaces

C3_MonoStep ==
    /\ seen_file \subseteq seen_file'
    /\ seen_file_exists => seen_file_exists'
    /\ pc' \notin {"dead", "start"} => seen_spaces \subseteq seen_spaces'

C3_SeenSetMonotonic == [](C3_AckedInv) /\ [][C3_MonoStep]_vars

\* an id was added and persisted, the process ended and the program was
\* started again: the log is about to be loaded
C3_Witness == pc = "start" /\ seen_file_exists /\ acked # {}

\* C4: in the process that wrote the baseline, every id of the baseline's
\* listing is in the log and in seen_spaces, was never scanned, has no line in
\* a key file and is not among the spaces a cycle selects for scanning (so a
\* cycle that lists only those ids scans nothing).
C4_Baseline ==
    pc \in LoopStates =>
        \A id \in Range(initial_spaces) :
            /\ id \in seen_file
            /\ id \in seen_spaces
            /\ id \notin detected
            /\ id \notin Range(new_spaces_to_scan)
            /\ \A kind \in Range(Kinds) : \A k \in DOMAIN key_files[kind] :
                  key_files[kind][k].space # id

\* a baseline over a space that holds keys, then a whole cycle without a
\* failure that selected nothing
C4_Witness ==
    /\ pc = "sleep"
    /\ faults = 0
    /\ <<"u", "/", "a">> \in Range(initial_spaces)
    /\ new_spaces_to_scan = <<>>

\* C5: a space is only ever processed when the log holds the whole listing of
\* the baseline (no run scans on the basis of an incomplete baseline).
C5_ScanOnlyAfterBaseline ==
    pc \in ProcessingStates => baselineMissing \subseteq seen_file

\* C6: a space whose id is in seen_spaces is never downloaded: when a download
\* starts, the id is not in the set.
C6_NoRescanOfSeen ==
    pc = "download" => space_id \notin seen_spaces

\* C7: a failure in one space never keeps the other new spaces of the cycle
\* from being processed: when the cycle reaches its sleep, the for loop has
\* come to the last space of new_spaces_to_scan (no space after the one the
\* loop stands at is left unprocessed).
C7_FailureIsolated ==
    pc = "sleep" => i >= Len(new_spaces_to_scan)

\* C10 as stated: where the loop moves on to the next space or to the sleep,
\* no download directory remains, except one a kill of an earlier process left
\* of a space whose processing never ended.
C10_NoDirLeft ==
    pc \in {"loop", "sleep"} =>
        \A id \in Ids : DirName(id) \in download_dirs => id \in killedIn

\* What holds in place of C10: the only download directories that remain at
\* those points are the ones whose removal (shutil.rmtree) raised and the
\* ones a kill left behind.
C10_DirLeftOnlyByFailedRemoval ==
    pc \in {"loop", "sleep"} =>
        \A id \in Ids :
            DirName(id) \in download_dirs => id \in rmFailed \cup killedIn

\* C13: a finding whose write failed is kept and written again by the end of
\* the cycle: when the cycle reaches its sleep, every finding of every space
\* this process marked seen is in the key files.
C13_WrittenByEndOfCycle ==
    pc = "sleep" =>
        \A id \in acked \cap seen_spaces :
            \A f \in Findings(id) : Stored(f[1], f[2], id)

\* what is left of a cycle: the spaces left, the place in the processing of
\* one space, the findings left to save; every step of the cycle lowers it
SpacesLeft ==
    IF pc = "cycle" THEN MaxListing + 1 ELSE Len(new_spaces_to_scan) + 1 - i

Place ==
    CASE pc = "loop" -> 6
      [] pc = "download" -> 5
      [] pc = "scan" -> 4
      [] pc = "save" -> 3
      [] pc = "persist" -> 2
      [] pc = "finally" -> 1
      [] OTHER -> 0

KeysLeft == IF pc = "save" THEN Len(found_keys) + 1 - ki ELSE 0

CycleShrinks ==
    \/ SpacesLeft' < SpacesLeft
    \/ SpacesLeft' = SpacesLeft /\ Place' < Place
    \/ SpacesLeft' = SpacesLeft /\ Place' = Place /\ KeysLeft' < KeysLeft

C14_LoopStep ==
    /\ pc \in LoopStates => pc' \in LoopStates \cup {"dead"}
    /\ (pc \in LoopStates /\ pc' = "cycle") => pc \in {"sleep", "cycle"}
    /\ (pc = "sleep" /\ pc' \in LoopStates) => pc' \in {"cycle", "sleep"}
    /\ (pc \in LoopStates \ {"sleep"} /\ pc' \in LoopStates \ {"sleep"}) =>
          CycleShrinks

\* C14: once the baseline exists the scan loop never ends on its own: only a
\* kill takes the process out of it, in every place of the loop the process
\* has a next step, every step of a cycle brings it closer to the sleep (so
\* every cycle, failed or not, ends with the sleep), and the step after the
\* sleep starts a cycle.
C14_RunsForever ==
    /\ [](pc \in LoopStates => ENABLED ProgramStep)
    /\ [][C14_LoopStep]_vars

\* C14, as progress of a process that is not killed: every place of the loop
\* leads to the sleep, and the sleep to the next cycle.
C14_Progress ==
    /\ (pc \in LoopStates) ~> (pc \in {"sleep", "dead"})
    /\ (pc = "sleep") ~> (pc \in {"cycle", "dead"})

\* the process that wrote the baseline starts a cycle after a cycle in which
\* the removal of a directory raised
C14_Witness ==
    /\ pc = "cycle"
    /\ initial_spaces # <<>>
    /\ rmFailed # {}
    /\ faults > 0

\* C20: within one cycle no id is downloaded twice: when a download starts,
\* the id is not the id of a space the loop of this cycle went through before.
C20_OncePerCycle ==
    pc = "download" =>
        \A k \in 1..(i - 1) : new_spaces_to_scan[k] # space_id

(* ------------------------ properties of hfscrapper.py ------------------ *)
\* the directories of the space
AllDirs == {"", "d1", "d1/e", "d2"}

\* the directories the walk comes to when the listings in failed give nothing
RECURSIVE Reached(_, _, _)
Reached(sp, failed, R) ==
    LET more == R \cup UNION { Range(ItemsOfType(Tree(sp, d), "directory")) :
                               d \in R \ failed }
    IN  IF more = R THEN R ELSE Reached(sp, failed, more)

FilesIn(sp, d) == Range(ItemsOfType(Tree(sp, d), "file"))

\* C8: a failed listing does not abort the walk.  While the walk runs, the
\* files of every directory listed so far are in the result; when it ends,
\* every directory outside the subtrees of the failed directories was listed
\* and its files are in the result, and the result holds no file twice.
C8_WalkSurvivesFailure ==
    /\ hpc \in {"walk", "fetch"} =>
          \A d \in listedDirs : FilesIn(space, d) \subseteq Range(files)
    /\ hpc = "fetch" =>
          /\ \A d \in Reached(space, failedDirs, {""}) \ failedDirs :
                d \in listedDirs /\ FilesIn(space, d) \subseteq Range(files)
          /\ \A a, b \in DOMAIN files : files[a] = files[b] => a = b

\* the listing of d1 failed, the walk ended with the root's file collected
\* before the failure and the file of d2 collected after it
C8_Witness ==
    /\ hpc = "fetch"
    /\ failedDirs = {"d1"}
    /\ files = <<"a.py", "d2/f.bin">>

\* C9: once a page request has failed, no further page is requested in that
\* pass.
C9_NoRequestAfterFailedPage == enum # "again"

\* C11: only files with an allowlisted extension are fetched: every path whose
\* content was requested so far ends in an extension of the allowlist.
C11_OnlyAllowlistedFetched ==
    hpc = "fetch" => \A k \in 1..(fi - 1) : Allowlisted(files[k])

\* C15 as stated: any two walks of the same space (the remote tree never
\* changes) that ended returned the same set of paths.
C15_SameResult ==
    \A a, b \in DOMAIN walkLog :
        walkLog[a].space = walkLog[b].space
            => walkLog[a].paths = walkLog[b].paths

\* C15 as amended: two walks of the same space in which no listing request
\* failed returned the same set of paths, and a walk in which a listing
\* failed returned a subset of it.
C15_SameResultWithoutFailure ==
    \A a, b \in DOMAIN walkLog :
        (walkLog[a].space = walkLog[b].space /\ ~walkLog[a].failed)
            => walkLog[b].paths \subseteq walkLog[a].paths

\* the same space was walked twice, no listing failed in either walk
C15_Witness ==
    \E a, b \in DOMAIN walkLog :
        /\ a < b
        /\ walkLog[a].space = walkLog[b].space
        /\ ~walkLog[a].failed /\ ~walkLog[b].failed
        /\ walkLog[a].paths # {}

\* the files of the whole tree of the space
AllFiles(sp) == UNION { FilesIn(sp, d) : d \in Reached(sp, {}, {""}) }

\* C17: the walk is a worklist over the tree.  No directory is in the queue
\* twice or again after its listing was requested; the walk ends, with the
\* queue empty; when no listing failed the result is exactly the files of the
\* tree, each once, and holds no directory.
C17_WalkInv ==
    /\ hpc = "walk" =>
          /\ \A a, b \in DOMAIN directories :
                directories[a] = directories[b] => a = b
          /\ Range(directories) \cap (listedDirs \cup failedDirs) = {}
          /\ listedDirs \cap failedDirs = {}
    /\ hpc = "fetch" => directories = <<>>
    /\ (hpc = "fetch" /\ failedDirs = {}) =>
          /\ listedDirs = Reached(space, {}, {""})
          /\ Range(files) = AllFiles(space)
          /\ Range(files) \cap Reached(space, {}, {""}) = {}
          /\ \A a, b \in DOMAIN files : files[a] = files[b] => a = b

C17_Worklist == [](C17_WalkInv) /\ ((hpc = "walk") ~> (hpc = "fetch"))

\* the walk of the tree with subdirectories ended without a failed listing
C17_Witness ==
    /\ hpc = "fetch"
    /\ failedDirs = {}
    /\ listedDirs = {"", "d1", "d1/e", "d2"}
    /\ Len(files) = 4

\* C18: the enumeration ends at the first empty page: no page is requested
\* beyond the offset of the first empty page of the catalog.
C18_EndsAtFirstEmptyPage ==
    hpc = "page" => offset <= Limit * Len(HPages)

\* C19: when the walk is about to request a listing after an earlier request
\* of the same walk, it has slept since that request.
C19_DelayBetweenListings ==
    (hpc = "walk" /\ directories # <<>>) => delayed

(* --------------------------- properties of main.py --------------------- *)
\* C12: no two tasks that scan the same space id are in flight together.
C12_NoConcurrentSameSpace ==
    \A a, b \in InFlight : tasks[a].id = tasks[b].id => a = b

\* C16: no value shorter than the minimum of the OpenAI rule (48 characters
\* after 'sk-' in main.py) is recorded, whichever rule found it: every key a
\* task returned has at least that many characters after the prefix.
C16_NoShortKeyRecorded ==
    \A t \in DOMAIN tasks : \A k \in DOMAIN tasks[t].keys :
        tasks[t].keys[k][2].n >= MainOpenAILen

\* how many times pair p stands in the sequence s
Occurrences(p, s) == Cardinality({k \in DOMAIN s : s[k] = p})

\* how many times the tasks 1..t returned pair p, all together
RECURSIVE Returned(_, _)
Returned(p, t) ==
    IF t = 0 THEN 0
    ELSE Occurrences(p, tasks[t].keys) + Returned(p, t - 1)

ReturnedPairs == UNION {Range(tasks[t].keys) : t \in DOMAIN tasks}

\* C21: whatever the order in which the tasks ran and completed, each
\* (space, key) pair a task returned stands exactly once in the results
\* written at the end.
C21_EachPairOnce ==
    mpc = "done" =>
        \A p \in ReturnedPairs : Occurrences(p, found_keys_txt) = 1

\* what holds in place of C21: the collection loses nothing and adds nothing,
\* a pair is written as many times as the tasks returned it
C21_WrittenAsOftenAsReturned ==
    mpc = "done" =>
        /\ Range(found_keys_txt) = ReturnedPairs
        /\ \A p \in ReturnedPairs :
               Occurrences(p, found_keys_txt) = Returned(p, Len(tasks))

C21_CollectorStep == collected_keys' # collected_keys => Collect

\* the second half of C21: the shared list is changed by the collecting
\* loop only, and only by adding the keys of one finished task at its end
C21_OnlyCollectorWrites == [][C21_CollectorStep]_vars

====
